---- MODULE Spec2Model ----
(***************************************************************************)
(* WhatsAppChannel (src/nanobot/channels/whatsapp.py): the lifecycle loop  *)
(* of start(), stop(), send() and the bridge message handler, as a state   *)
(* machine.  asyncio is cooperative: code between two awaits is one atomic *)
(* step, so each action below runs from one suspension point to the next.  *)
(*                                                                         *)
(* The websocket object self._ws refers to is modelled by what it refers   *)
(* to: "None", "cur" (the object of the running `async with` block) or     *)
(* "old" (the object of a block that has been left, a closed connection).  *)
(* Strings that the code takes apart are sequences of characters.          *)
(*                                                                         *)
(* The environment: start() is called once; stop() and send() are called   *)
(* from other coroutines, stop() only once start() has begun; the peer     *)
(* sends frames, closes the connection or breaks it at any time.  The task *)
(* running start() is not cancelled from outside.                          *)
(***************************************************************************)
EXTENDS Integers, Sequences, FiniteSets, TLC

VARIABLES
    pc,            \* where start() is: init, connecting, listening, handling, backoff, done
    running,       \* self._running
    connected,     \* self._connected
    ws,            \* self._ws: "None", "cur" or "old"
    transport,     \* the connection of the running block: none, open, closing
    timer,         \* time units asyncio.sleep(5) still has to wait
    lastExit,      \* how the connection or attempt before this wait ended: error or
                   \* clean; none before the first attempt and while a connection is up
    stopClosing,   \* number of stop() calls that await self._ws.close()
    stopAt,        \* where start() was when stop() was first called; none before
    stopReturned,  \* some stop() has returned
    sendPc,        \* send(): idle, or writing (awaiting self._ws.send(...))
    sendTarget,    \* the websocket object the pending write was issued on
    sendMsg,       \* the OutboundMessage of the pending write
    sendOutcome,   \* the last send(): none, noop, pending, written, or logged (write failed)
    written,       \* frames written to a transport, in order
    nsends,        \* number of send() calls so far
    sendLate,      \* the last send() that issued a write was called after a stop() returned
    monitored,     \* config.monitor_groups
    dirs,          \* group directories that exist under GROUP_LOG_DIR
    digest,        \* <<dir, day>> -> the lines of that .jsonl file
    forwarded,     \* the calls of the upstream _handle_message, in order
    nframes,       \* number of frames the loop has taken from the transport
    lastKind,      \* what the last frame taken was
    lastResult     \* its handling: none, ok, pending (upstream awaited), raised

ctl   == <<pc, running, connected, ws, transport, timer, lastExit>>
stp   == <<stopClosing, stopAt, stopReturned>>
snd   == <<sendPc, sendTarget, sendMsg, sendOutcome, written, nsends, sendLate>>
disk  == <<dirs, digest>>
inb   == <<forwarded, nframes, lastKind, lastResult>>
vars  == <<pc, running, connected, ws, transport, timer, lastExit,
           stopClosing, stopAt, stopReturned,
           sendPc, sendTarget, sendMsg, sendOutcome, written, nsends, sendLate,
           monitored, dirs, digest, forwarded, nframes, lastKind, lastResult>>

\* some stop() has been called
stopRequested == stopAt # "none"

\* ---------------------------------------------------------------- bounds
\* frames the loop takes from the transport
MaxFrames == 2
\* send() calls
MaxSends == 1
\* stop() calls that overlap
MaxStops == 2

\* asyncio.sleep(5)
BackoffDelay == 5

\* ---------------------------------------------------------------- data
At == "@"

Jid1 == <<"1", At, "x">>
JidG == <<"G", At, "g">>
Pn4  == <<"4">>
NoStr == << >>

Hi       == "hi"
Voice    == "[Voice Message]"
VoicePlaceholder == "[Voice Message: Transcription not available for WhatsApp yet]"

\* One text frame from the bridge, after json.loads where that succeeds.
\* kind: malformed (json.loads raises), nonobject (valid JSON, not an object),
\* or the value of data.get("type") of an object.
Frame(k, s, p, c, g, st) ==
    [kind |-> k, sender |-> s, pn |-> p, content |-> c, isGroup |-> g, status |-> st]

\* message frames are group messages or direct messages; qr, error and unknown
\* types are the ones the handler at most logs; the others go by their kind
FrameClass(f) ==
    IF f.kind = "message" THEN (IF f.isGroup THEN "group" ELSE "direct")
    ELSE IF f.kind \in {"qr", "error", "unknown"} THEN "logonly"
    ELSE f.kind

\* a direct message with a phone-style id, and a voice message without one
DirectFrames ==
    {Frame("message", Jid1, Pn4, Hi, FALSE, ""), Frame("message", Jid1, NoStr, Voice, FALSE, "")}

\* a message of group G with the member's phone-style id, and one of group 1 without
GroupFrames ==
    {Frame("message", JidG, Pn4, Hi, TRUE, ""), Frame("message", Jid1, NoStr, Hi, TRUE, "")}

MessageFrames == DirectFrames \cup GroupFrames

StatusFrames ==
    {Frame("status", NoStr, NoStr, "", FALSE, st) : st \in {"connected", "disconnected", "connecting"}}

OtherFrames ==
    {Frame(k, NoStr, NoStr, "", FALSE, "") : k \in {"malformed", "nonobject", "qr", "error", "unknown"}}

Frames == MessageFrames \cup StatusFrames \cup OtherFrames

MonitorConfigs == {{}, {JidG}}

OutboundMessages == {[chat_id |-> Jid1, content |-> "ok"]}

\* datetime.now(timezone.utc).strftime("%Y-%m-%d"): the wall clock's day
Days == {1, 2}

\* ---------------------------------------------------------------- helpers
\* "@" in s
HasAt(s) == \E i \in 1..Len(s) : s[i] = At

\* s.split("@")[0]
RECURSIVE SplitFirst(_)
SplitFirst(s) ==
    IF s = << >> \/ Head(s) = At THEN << >> ELSE <<Head(s)>> \o SplitFirst(Tail(s))

\* Faulty variant: the identifier is forwarded with its "@..." suffix.
SenderId_KeepsSuffix(pn, sender) == IF pn # NoStr THEN pn ELSE sender

\* user_id = pn if pn else sender; sender_id = user_id.split("@")[0] if "@" in user_id else user_id
SenderId(pn, sender) ==
    LET user_id == IF pn # NoStr THEN pn ELSE sender
    IN  IF HasAt(user_id) THEN SplitFirst(user_id) ELSE user_id

\* group_jid.replace("@", "_at_")
RECURSIVE ReplaceAt(_)
ReplaceAt(s) ==
    IF s = << >> THEN << >>
    ELSE (IF Head(s) = At THEN <<"_", "a", "t", "_">> ELSE <<Head(s)>>) \o ReplaceAt(Tail(s))

\* Faulty variant: an empty monitor list is taken to mean "log no group".
ShouldLog_EmptyLogsNothing(mon, group_jid) == group_jid \in mon

\* not monitored or group_jid in monitored
ShouldLog(mon, group_jid) == mon = {} \/ group_jid \in mon

\* Faulty variant: the log file is opened with "w", so a write replaces the file.
AppendLine_Truncates(files, file, entry) ==
    IF file \in DOMAIN files
    THEN [files EXCEPT ![file] = <<entry>>]
    ELSE files @@ (file :> <<entry>>)

\* with open(log_file, "a") as f: f.write(json.dumps(entry) + "\n")
AppendLine(files, file, entry) ==
    IF file \in DOMAIN files
    THEN [files EXCEPT ![file] = Append(@, entry)]
    ELSE files @@ (file :> <<entry>>)

\* payload = {"type": "send", "to": msg.chat_id, "text": msg.content}
Payload(msg) == [type |-> "send", to |-> msg.chat_id, text |-> msg.content]

\* Faulty variant: the loop test ignores self._running (while True).
LoopCheckPc_IgnoresStop(run) == "connecting"

\* while self._running:  -- where start() goes when it reaches the loop test
LoopCheckPc(run) == IF run THEN "connecting" ELSE "done"

\* Faulty variant: the except branch leaves the loop instead of retrying.
AfterErrorPc_GivesUp(run) == "done"

\* if self._running: await asyncio.sleep(5)  -- then the loop test
AfterErrorPc(run) == IF run THEN "backoff" ELSE "done"

\* A websocket object stops being the running block's object when the block is left.
Retire(h) == IF h = "cur" THEN "old" ELSE h

\* ---------------------------------------------------------------- the handler
\* What one call of a handler leaves behind: the new self._connected, the disk,
\* the upstream call it makes (at most one) and whether it raised.
Effect(conn, ds, dg, call, raised) ==
    [conn |-> conn, dirs |-> ds, digest |-> dg, call |-> call, raised |-> raised]

DiskOutcomes == {"ok", "mkdir_fails", "write_fails"}

\* The handler touches the disk and reads the clock only in _log_group_message.
TouchesDisk(data) ==
    data.kind = "message" /\ data.isGroup /\ ShouldLog(monitored, data.sender)

DiskOutcomesOf(data) == IF TouchesDisk(data) THEN DiskOutcomes ELSE {"ok"}

DaysOf(data) == IF TouchesDisk(data) THEN Days ELSE {1}

\* _log_group_message(data); env is what the file system does, today the clock's day
LogGroupMessage(data, env, today) ==
    LET group_dir == ReplaceAt(data.sender)
        log_file  == <<group_dir, today>>
        entry     == [ts |-> 0, sender |-> data.pn, content |-> data.content]
    IN  CASE env = "mkdir_fails" -> Effect(connected, dirs, digest, << >>, TRUE)
          [] env = "write_fails" -> Effect(connected, dirs \cup {group_dir}, digest, << >>, TRUE)
          [] OTHER -> Effect(connected, dirs \cup {group_dir},
                             AppendLine(digest, log_file, entry), << >>, FALSE)

\* The arguments of await self._handle_message(...)
UpstreamCall(data) ==
    [sender_id |-> SenderId(data.pn, data.sender),
     chat_id   |-> data.sender,
     content   |-> IF data.content = Voice THEN VoicePlaceholder ELSE data.content,
     is_group  |-> data.isGroup]

\* Faulty variant: every status but "connected" is taken for a disconnect.
StatusUpdate_ElseDisconnected(conn, status) == status = "connected"

\* if status == "connected": ... elif status == "disconnected": ...
StatusUpdate(conn, status) ==
    IF status = "connected" THEN TRUE
    ELSE IF status = "disconnected" THEN FALSE
    ELSE conn

\* Faulty variant: the `return` after the group branch is missing, so a group message
\* goes on to the upstream call.
HandleBridgeMessage_GroupFallsThrough(data, env, today) ==
    LET same == Effect(connected, dirs, digest, << >>, FALSE)
    IN  CASE data.kind = "message" ->
                LET logged == IF data.isGroup /\ ShouldLog(monitored, data.sender)
                              THEN LogGroupMessage(data, env, today)
                              ELSE same
                IN  IF logged.raised THEN logged
                    ELSE Effect(connected, logged.dirs, logged.digest, <<UpstreamCall(data)>>, FALSE)
          [] data.kind = "nonobject" -> Effect(connected, dirs, digest, << >>, TRUE)
          [] data.kind = "status" ->
                Effect(StatusUpdate(connected, data.status), dirs, digest, << >>, FALSE)
          [] OTHER -> same

\* Faulty variant: a frame that does not decode is taken for a lost connection.
HandleBridgeMessage_DecodeErrorDisconnects(data, env, today) ==
    LET same == Effect(connected, dirs, digest, << >>, FALSE)
    IN  CASE data.kind = "malformed" -> Effect(FALSE, dirs, digest, << >>, FALSE)
          [] data.kind = "nonobject" -> Effect(connected, dirs, digest, << >>, TRUE)
          [] data.kind = "message" ->
                IF data.isGroup
                THEN IF ShouldLog(monitored, data.sender)
                     THEN LogGroupMessage(data, env, today)
                     ELSE same
                ELSE Effect(connected, dirs, digest, <<UpstreamCall(data)>>, FALSE)
          [] data.kind = "status" ->
                Effect(StatusUpdate(connected, data.status), dirs, digest, << >>, FALSE)
          [] OTHER -> same

\* _handle_bridge_message(raw), up to the await of the upstream call
HandleBridgeMessage(data, env, today) ==
    LET same == Effect(connected, dirs, digest, << >>, FALSE)
    IN  CASE data.kind = "malformed" -> same
          [] data.kind = "nonobject" -> Effect(connected, dirs, digest, << >>, TRUE)
          [] data.kind = "message" ->
                IF data.isGroup
                THEN IF ShouldLog(monitored, data.sender)
                     THEN LogGroupMessage(data, env, today)
                     ELSE same
                ELSE Effect(connected, dirs, digest, <<UpstreamCall(data)>>, FALSE)
          [] data.kind = "status" ->
                Effect(StatusUpdate(connected, data.status), dirs, digest, << >>, FALSE)
          [] OTHER -> same

\* ---------------------------------------------------------------- start()
NoMsg == [chat_id |-> NoStr, content |-> ""]

Init ==
    /\ pc = "init" /\ running = FALSE /\ connected = FALSE /\ ws = "None"
    /\ transport = "none" /\ timer = 0 /\ lastExit = "none"
    /\ stopClosing = 0 /\ stopAt = "none" /\ stopReturned = FALSE
    /\ sendPc = "idle" /\ sendTarget = "None" /\ sendMsg = NoMsg /\ sendOutcome = "none"
    /\ written = << >> /\ nsends = 0 /\ sendLate = FALSE
    /\ monitored \in MonitorConfigs /\ dirs = {} /\ digest = << >>
    /\ forwarded = << >> /\ nframes = 0 /\ lastKind = "none" /\ lastResult = "none"

\* self._running = True; while self._running: ... websockets.connect(bridge_url)
StartCall ==
    /\ pc = "init"
    /\ running' = TRUE
    /\ pc' = LoopCheckPc(TRUE)
    /\ UNCHANGED <<connected, ws, transport, timer, lastExit>>
    /\ UNCHANGED <<stp, snd, monitored, disk, inb>>

\* Faulty variant: no `except Exception` around the connection, so a failed
\* handshake or read leaves start() with the exception.
ExceptPath_Propagates ==
    /\ ws' = Retire(ws)
    /\ transport' = "none"
    /\ pc' = "done"
    /\ lastExit' = "error"
    /\ sendTarget' = Retire(sendTarget)
    /\ UNCHANGED <<running, connected, timer>>

\* except Exception as e: the block is left by an exception
ExceptPath ==
    /\ connected' = FALSE
    /\ ws' = "None"
    /\ transport' = "none"
    /\ pc' = AfterErrorPc(running)
    /\ timer' = IF running THEN BackoffDelay ELSE 0
    /\ lastExit' = "error"
    /\ sendTarget' = Retire(sendTarget)
    /\ UNCHANGED running

\* `async for` ends without an exception: the block is left, then the loop test
CleanExit ==
    /\ ws' = Retire(ws)
    /\ transport' = "none"
    /\ pc' = LoopCheckPc(running)
    /\ lastExit' = "clean"
    /\ sendTarget' = Retire(sendTarget)
    /\ UNCHANGED <<running, connected, timer>>

\* async with websockets.connect(bridge_url) as ws: self._ws = ws; self._connected = True
ConnectOk ==
    /\ pc = "connecting"
    /\ ws' = "cur"
    /\ connected' = TRUE
    /\ transport' = "open"
    /\ pc' = "listening"
    /\ lastExit' = "none"
    /\ UNCHANGED <<running, timer>>
    /\ UNCHANGED <<stp, snd, monitored, disk, inb>>

\* websockets.connect raises (connection refused, handshake failure)
ConnectError ==
    /\ pc = "connecting"
    /\ ExceptPath
    /\ UNCHANGED <<stp, sendPc, sendMsg, sendOutcome, written, nsends, sendLate>>
    /\ UNCHANGED <<monitored, disk, inb>>

\* Faulty variant: no try/except around the handler, its exception leaves the block.
OnHandlerError_TearsDown == ExceptPath

\* except Exception as e: logger.error(...)  -- inside the `async for`
OnHandlerError ==
    /\ pc' = "listening"
    /\ UNCHANGED <<running, connected, ws, transport, timer, lastExit, sendTarget>>

\* Faulty variant: the upstream call is started as a task and not awaited, so the
\* loop reads the next frame while the call is still running.
RecvFrame_NoAwait(f) ==
    /\ pc = "listening"
    /\ transport \in {"open", "closing"}
    /\ nframes < MaxFrames
    /\ nframes' = nframes + 1
    /\ lastKind' = FrameClass(f)
    /\ \E env \in DiskOutcomesOf(f), today \in DaysOf(f) :
         LET r == HandleBridgeMessage(f, env, today)
         IN  /\ dirs' = r.dirs
             /\ digest' = r.digest
             /\ forwarded' = forwarded \o r.call
             /\ IF r.raised
                THEN /\ lastResult' = "raised"
                     /\ OnHandlerError
                ELSE /\ lastResult' = IF r.call # << >> THEN "pending" ELSE "ok"
                     /\ pc' = "listening"
                     /\ connected' = r.conn
                     /\ UNCHANGED <<running, ws, transport, timer, lastExit, sendTarget>>
    /\ UNCHANGED <<stp, sendPc, sendMsg, sendOutcome, written, nsends, sendLate>>
    /\ UNCHANGED monitored

\* async for message in ws: await self._handle_bridge_message(message)
RecvFrame(f) ==
    /\ pc = "listening"
    /\ transport \in {"open", "closing"}
    /\ nframes < MaxFrames
    /\ nframes' = nframes + 1
    /\ lastKind' = FrameClass(f)
    /\ \E env \in DiskOutcomesOf(f), today \in DaysOf(f) :
         LET r == HandleBridgeMessage(f, env, today)
         IN  /\ dirs' = r.dirs
             /\ digest' = r.digest
             /\ forwarded' = forwarded \o r.call
             /\ IF r.raised
                THEN /\ lastResult' = "raised"
                     /\ OnHandlerError
                ELSE /\ lastResult' = IF r.call # << >> THEN "pending" ELSE "ok"
                     /\ pc' = IF r.call # << >> THEN "handling" ELSE "listening"
                     /\ connected' = r.conn
                     /\ UNCHANGED <<running, ws, transport, timer, lastExit, sendTarget>>
    /\ UNCHANGED <<stp, sendPc, sendMsg, sendOutcome, written, nsends, sendLate>>
    /\ UNCHANGED monitored

\* the awaited self._handle_message(...) returns
UpstreamReturn ==
    /\ pc = "handling"
    /\ pc' = "listening"
    /\ lastResult' = "ok"
    /\ UNCHANGED <<running, connected, ws, transport, timer, lastExit>>
    /\ UNCHANGED <<stp, snd, monitored, disk, forwarded, nframes, lastKind>>

\* the awaited self._handle_message(...) raises
UpstreamRaise ==
    /\ pc = "handling"
    /\ lastResult' = "raised"
    /\ OnHandlerError
    /\ UNCHANGED <<stp, sendPc, sendMsg, sendOutcome, written, nsends, sendLate>>
    /\ UNCHANGED <<monitored, disk, forwarded, nframes, lastKind>>

\* the peer closes the connection with a normal close code: `async for` ends
PeerClose ==
    /\ pc = "listening"
    /\ transport = "open"
    /\ CleanExit
    /\ UNCHANGED <<stp, sendPc, sendMsg, sendOutcome, written, nsends, sendLate>>
    /\ UNCHANGED <<monitored, disk, inb>>

\* reading the next frame raises (connection lost, abnormal close)
ReadError ==
    /\ pc = "listening"
    /\ transport = "open"
    /\ ExceptPath
    /\ UNCHANGED <<stp, sendPc, sendMsg, sendOutcome, written, nsends, sendLate>>
    /\ UNCHANGED <<monitored, disk, inb>>

\* the loop sees the close that stop() started: the iteration ends, cleanly when
\* the closing handshake completes and by an exception when it times out
LocalCloseSeen ==
    /\ pc = "listening"
    /\ transport = "closing"
    /\ (CleanExit \/ ExceptPath)
    /\ UNCHANGED <<stp, sendPc, sendMsg, sendOutcome, written, nsends, sendLate>>
    /\ UNCHANGED <<monitored, disk, inb>>

\* one time unit of await asyncio.sleep(5) passes
Tick ==
    /\ pc = "backoff"
    /\ timer > 0
    /\ timer' = timer - 1
    /\ UNCHANGED <<pc, running, connected, ws, transport, lastExit>>
    /\ UNCHANGED <<stp, snd, monitored, disk, inb>>

\* asyncio.sleep(5) returns; then the loop test
SleepReturn ==
    /\ pc = "backoff"
    /\ timer = 0
    /\ pc' = LoopCheckPc(running)
    /\ UNCHANGED <<running, connected, ws, transport, timer, lastExit>>
    /\ UNCHANGED <<stp, snd, monitored, disk, inb>>

\* ---------------------------------------------------------------- stop()
\* self._running = False; self._connected = False; if self._ws: await self._ws.close()
StopCall ==
    /\ pc # "init"
    /\ ws = "None" \/ stopClosing < MaxStops
    /\ running' = FALSE
    /\ connected' = FALSE
    /\ stopAt' = IF stopAt = "none" THEN pc ELSE stopAt
    /\ IF ws # "None"
       THEN /\ stopClosing' = stopClosing + 1
            /\ transport' = IF ws = "cur" /\ transport = "open" THEN "closing" ELSE transport
            /\ UNCHANGED stopReturned
       ELSE /\ stopReturned' = TRUE
            /\ UNCHANGED <<stopClosing, transport>>
    /\ UNCHANGED <<pc, ws, timer, lastExit>>
    /\ UNCHANGED <<snd, monitored, disk, inb>>

\* self._ws.close() returns; self._ws = None
StopCloseDone ==
    /\ stopClosing > 0
    /\ ws' = "None"
    /\ stopClosing' = stopClosing - 1
    /\ stopReturned' = TRUE
    /\ UNCHANGED <<pc, running, connected, transport, timer, lastExit, stopAt>>
    /\ UNCHANGED <<snd, monitored, disk, inb>>

\* ---------------------------------------------------------------- send()
\* Faulty variant: send() without the connection check.
SendCall_NoGuard(m) ==
    /\ sendPc = "idle"
    /\ nsends < MaxSends
    /\ nsends' = nsends + 1
    /\ sendPc' = "writing"
    /\ sendTarget' = ws
    /\ sendMsg' = m
    /\ sendOutcome' = "pending"
    /\ sendLate' = stopReturned
    /\ UNCHANGED <<ctl, stp, written, monitored, disk, inb>>

\* if not self._ws or not self._connected: return; else await self._ws.send(json.dumps(payload))
SendCall(m) ==
    /\ sendPc = "idle"
    /\ nsends < MaxSends
    /\ nsends' = nsends + 1
    /\ IF ws = "None" \/ ~connected
       THEN /\ sendOutcome' = "noop"
            /\ UNCHANGED <<sendPc, sendTarget, sendMsg, sendLate>>
       ELSE /\ sendPc' = "writing"
            /\ sendTarget' = ws
            /\ sendMsg' = m
            /\ sendOutcome' = "pending"
            /\ sendLate' = stopReturned
    /\ UNCHANGED <<ctl, stp, written, monitored, disk, inb>>

\* the write reaches the transport; send() returns
SendWriteOk ==
    /\ sendPc = "writing"
    /\ sendTarget = "cur"
    /\ transport = "open"
    /\ written' = Append(written, Payload(sendMsg))
    /\ sendOutcome' = "written"
    /\ sendPc' = "idle"
    /\ UNCHANGED <<sendTarget, sendMsg, nsends, sendLate>>
    /\ UNCHANGED <<ctl, stp, monitored, disk, inb>>

\* Faulty variant: no try/except around the write, the exception reaches the caller.
SendWriteError_Raises ==
    /\ sendPc = "writing"
    /\ sendOutcome' = "raised"
    /\ sendPc' = "idle"
    /\ UNCHANGED <<sendTarget, sendMsg, written, nsends, sendLate>>
    /\ UNCHANGED <<ctl, stp, monitored, disk, inb>>

\* self._ws.send raises; except Exception as e: logger.error(...); send() returns
SendWriteError ==
    /\ sendPc = "writing"
    /\ sendOutcome' = "logged"
    /\ sendPc' = "idle"
    /\ UNCHANGED <<sendTarget, sendMsg, written, nsends, sendLate>>
    /\ UNCHANGED <<ctl, stp, monitored, disk, inb>>

Next ==
    \/ StartCall
    \/ ConnectOk
    \/ ConnectError
    \/ \E f \in Frames : RecvFrame(f)
    \/ UpstreamReturn
    \/ UpstreamRaise
    \/ PeerClose
    \/ ReadError
    \/ LocalCloseSeen
    \/ Tick
    \/ SleepReturn
    \/ StopCall
    \/ StopCloseDone
    \/ \E m \in OutboundMessages : SendCall(m)
    \/ SendWriteOk
    \/ SendWriteError

Spec == Init /\ [][Next]_vars

\* What the event loop and the transport's own timeouts guarantee: a handshake
\* ends, a sleep elapses, an awaited call and a close end, a runnable coroutine
\* runs.  Nothing is assumed of the peer (frames, closes) or of the callers of
\* stop() and send().
Fairness ==
    /\ WF_vars(ConnectOk \/ ConnectError)
    /\ WF_vars(Tick)
    /\ WF_vars(SleepReturn)
    /\ WF_vars(UpstreamReturn \/ UpstreamRaise)
    /\ WF_vars(LocalCloseSeen)
    /\ WF_vars(StopCloseDone)
    /\ WF_vars(SendWriteOk \/ SendWriteError)

LiveSpec == Spec /\ Fairness

\* ---------------------------------------------------------------- claims
Malformed == Frame("malformed", NoStr, NoStr, "", FALSE, "")

\* C1: no call of the upstream handle_message is for a group message, whatever
\* the monitor set is.
C1_GroupNeverForwarded ==
    \A i \in 1..Len(forwarded) : forwarded[i].is_group = FALSE

\* a group message that the monitor set {G} does not contain was handled, and
\* nothing was logged or forwarded
C1_Witness ==
    /\ lastKind = "group" /\ lastResult = "ok"
    /\ monitored = {JidG} /\ digest = << >> /\ forwarded = << >>

\* C2: a transport error (connect or receive) without a stop request leaves the
\* controller Disconnected in backoff, and from backoff it begins a new Connecting
\* attempt unless a stop request arrives; nothing counts the retries.
C2_ReconnectLiveness ==
    /\ [][((ConnectError \/ ReadError) /\ ~stopRequested)
            => (~connected' /\ ws' = "None" /\ pc' = "backoff" /\ timer' = BackoffDelay)]_vars
    /\ (pc = "backoff" /\ ~stopRequested) ~> (pc = "connecting" \/ stopRequested)

\* a new attempt after a failure, no stop requested
C2_Witness == pc = "connecting" /\ lastExit = "error" /\ ~stopRequested

\* C3: every Connecting attempt but the first begins right after a backoff wait
\* that has fully elapsed.
C3_BackoffBeforeEveryReconnect ==
    [][(pc # "connecting" /\ pc' = "connecting")
         => (pc = "init" \/ (pc = "backoff" /\ timer = 0))]_vars

\* C4: once stop() has been requested and every stop() call has returned, the
\* receive loop is not left awaiting a frame on an open transport (where only the
\* peer could end it), and the connected flag is down.
C4_StopReachesFinal ==
    (stopRequested /\ stopClosing = 0)
        => (~(pc = "listening" /\ transport = "open") /\ (pc = "done" => ~connected))

\* C5: once a stop has been requested the controller begins no Connecting attempt.
C5_NoConnectAfterStop ==
    [][stopRequested => ~(pc # "connecting" /\ pc' = "connecting")]_vars

\* stop was requested during the backoff wait, and start() has returned
C5_Witness == stopAt = "backoff" /\ pc = "done" /\ lastExit = "error" /\ stopReturned

\* C6: a stop requested during the backoff wait leaves no time that still has to
\* elapse before the loop can leave the wait.
C6_BackoffInterruptible ==
    (pc = "backoff" /\ stopRequested) => timer = 0

\* C7: a send() called while the handle is cleared or the connected flag is false
\* returns at once: nothing is written and nothing stays pending.
C7_SendWhileDisconnectedNoOp ==
    [][\A m \in OutboundMessages :
         (SendCall(m) /\ (ws = "None" \/ ~connected))
            => (written' = written /\ sendPc' = "idle" /\ sendOutcome' = "noop"
                /\ UNCHANGED <<ctl, sendTarget, sendMsg, sendLate>>)]_vars

\* send() was a no-op on an open connection whose bridge reported disconnected
C7_Witness ==
    /\ sendOutcome = "noop" /\ written = << >>
    /\ pc = "listening" /\ transport = "open" /\ ws = "cur" /\ ~connected /\ ~stopRequested

\* C8: no send() ends by an exception reaching its caller, and a failed write
\* leaves the connected flag, the handle and the lifecycle loop as they were.
C8_SendNeverRaises ==
    /\ [](sendOutcome # "raised")
    /\ [][SendWriteError => (sendOutcome' = "logged" /\ written' = written /\ UNCHANGED ctl)]_vars

\* a write failed after stop() had cleared the handle
C8_Witness == sendOutcome = "logged" /\ ws = "None" /\ stopReturned

\* C9: a frame that does not decode changes nothing but the count of frames: no
\* upstream call, no digest line, the same flag, handle and transport, and the
\* loop is back at awaiting the next frame.
C9_MalformedDiscarded ==
    [][RecvFrame(Malformed)
         => (/\ forwarded' = forwarded /\ digest' = digest /\ dirs' = dirs
             /\ connected' = connected /\ ws' = ws /\ transport' = transport
             /\ running' = running /\ pc' = "listening" /\ lastResult' = "ok")]_vars

\* the second frame of a connection did not decode; the loop awaits the third
C9_Witness ==
    /\ lastKind = "malformed" /\ nframes = 2 /\ pc = "listening"
    /\ transport = "open" /\ ws = "cur" /\ connected /\ forwarded # << >>

\* C10: a handler that raises (the upstream call, the digest write, a frame that
\* is no object) leaves the controller where it was, awaiting the next frame on the
\* same transport with no backoff; the block is left only by a transport event.
C10_HandlerFailureIsolated ==
    /\ [][(UpstreamRaise \/ (\E f \in Frames : RecvFrame(f) /\ lastResult' = "raised"))
            => (pc' = "listening" /\ UNCHANGED <<running, connected, ws, transport, timer, lastExit>>)]_vars
    /\ [][(pc \in {"listening", "handling"} /\ pc' \notin {"listening", "handling"})
            => (PeerClose \/ ReadError \/ LocalCloseSeen)]_vars

\* a digest write failed (the directory exists, no line), and a later direct
\* message was forwarded with the controller still connected
C10_Witness ==
    /\ dirs # {} /\ digest = << >> /\ nframes = 2
    /\ lastKind = "direct" /\ lastResult = "ok" /\ forwarded # << >>
    /\ pc = "listening" /\ connected /\ ws = "cur" /\ transport = "open"

\* ---------------------------------------------------------------- C11
\* The number of records in the digest store, over all its files.
RECURSIVE LinesIn(_, _)
LinesIn(files, names) ==
    IF names = {} THEN 0
    ELSE LET n == CHOOSE x \in names : TRUE
         IN  Len(files[n]) + LinesIn(files, names \ {n})

Lines(files) == LinesIn(files, DOMAIN files)

\* The envelope's group is one the filter lets through.
Monitored(f) == monitored = {} \/ f.sender \in monitored

\* The three steps a group envelope can take.
GroupLogged(f) ==
    /\ lastResult' = "ok"
    /\ \E d \in Days : /\ <<ReplaceAt(f.sender), d>> \in DOMAIN digest'
                        /\ Lines(digest') = Lines(digest) + 1
    /\ UNCHANGED <<forwarded, connected, ws, transport>>

GroupWriteFailed(f) ==
    /\ lastResult' = "raised"
    /\ UNCHANGED <<digest, forwarded, connected, ws, transport>>

GroupIgnored(f) ==
    /\ lastResult' = "ok"
    /\ pc' = "listening"
    /\ UNCHANGED <<dirs, digest, forwarded, connected, ws, transport>>

\* C11 as stated: a group envelope of G adds exactly one record to the digest store
\* when the monitor set is empty or contains G, and has no effect at all when the
\* monitor set is non-empty and does not contain G.
C11_GroupFilterAsStated ==
    [][\A f \in GroupFrames :
          RecvFrame(f) => IF Monitored(f) THEN GroupLogged(f) ELSE GroupIgnored(f)]_vars

\* C11, amended: a group envelope of G adds exactly one record to the digest store
\* when the monitor set is empty or contains G and the directory creation and the
\* write succeed; when either raises, no record is added and the handler fails; the
\* envelope has no effect at all when the monitor set is non-empty and lacks G.
C11_GroupFilterPolicy ==
    [][\A f \in GroupFrames :
          RecvFrame(f) => IF Monitored(f)
                          THEN GroupLogged(f) \/ GroupWriteFailed(f)
                          ELSE GroupIgnored(f)]_vars

\* A message of group G was logged under the monitor set {G}, and an empty monitor
\* set has its own run (monitored is fixed per run).
C11_Witness ==
    /\ monitored = {JidG} /\ lastKind = "group" /\ lastResult = "ok"
    /\ dirs = {ReplaceAt(JidG)} /\ Lines(digest) = 1 /\ forwarded = << >>

\* ---------------------------------------------------------------- C12
\* s with everything from its first "@" on removed
UpToAt(s) ==
    IF \E i \in 1..Len(s) : s[i] = At
    THEN LET first == CHOOSE i \in 1..Len(s) :
                         s[i] = At /\ \A j \in 1..(i - 1) : s[j] # At
         IN  SubSeq(s, 1, first - 1)
    ELSE s

ExpectedSenderId(pn, sender) == UpToAt(IF Len(pn) > 0 THEN pn ELSE sender)

\* Identifiers of the shapes a bridge sends: bare numbers, phone-style and LID-style
\* ids, and one with two "@".
PnSamples == {NoStr, <<"4", "5", "6">>, <<"4", At, "s">>}

SenderSamples == {<<"1", "2", "3", At, "x">>, <<"7">>, <<"1", At, "x", At, "y">>}

\* C12: a direct message envelope makes exactly one handle_message call, whose
\* sender_id is pn when pn is present and non-empty and sender otherwise, cut at its
\* first "@", and whose chat_id is the whole sender; sender 123@x with pn 456 gives
\* sender_id 456 and chat_id 123@x.
C12_DirectRouting ==
    /\ [][\A f \in DirectFrames :
             RecvFrame(f) =>
                /\ Len(forwarded') = Len(forwarded) + 1
                /\ SubSeq(forwarded', 1, Len(forwarded)) = forwarded
                /\ LET call == forwarded'[Len(forwarded')]
                   IN  /\ call.sender_id = ExpectedSenderId(f.pn, f.sender)
                       /\ call.chat_id = f.sender
                       /\ ~call.is_group]_vars
    /\ [](\A pn \in PnSamples, sender \in SenderSamples :
             LET call == UpstreamCall(Frame("message", sender, pn, Hi, FALSE, ""))
             IN  /\ call.sender_id = ExpectedSenderId(pn, sender)
                 /\ call.chat_id = sender)
    /\ [](SenderId(<<"4", "5", "6">>, <<"1", "2", "3", At, "x">>) = <<"4", "5", "6">>)

\* Both direct messages were forwarded: the one with a pn under the pn, the one
\* without under the sender cut at "@", both with the whole sender as chat_id.
C12_Witness ==
    /\ Len(forwarded) = 2
    /\ forwarded[1].sender_id = <<"4">> /\ forwarded[1].chat_id = Jid1
    /\ forwarded[2].sender_id = <<"1">> /\ forwarded[2].chat_id = Jid1

\* ---------------------------------------------------------------- C13
\* a is a prefix of b
IsPrefix(a, b) == Len(a) <= Len(b) /\ SubSeq(b, 1, Len(a)) = a

\* C13: the digest store only grows by appends: every file of an earlier state is
\* there in the next state with the earlier content as a prefix, no step adds more
\* than one record, and each group envelope that is logged adds exactly one.
C13_DigestAppendOnly ==
    [][/\ \A file \in DOMAIN digest :
             file \in DOMAIN digest' /\ IsPrefix(digest[file], digest'[file])
       /\ Lines(digest') \in {Lines(digest), Lines(digest) + 1}
       /\ \A f \in GroupFrames :
             (RecvFrame(f) /\ Monitored(f) /\ lastResult' = "ok")
                => Lines(digest') = Lines(digest) + 1]_vars

\* Two messages of one group were logged on the same day: the second one was added
\* to a file that had a record already.
C13_Witness ==
    \E file \in DOMAIN digest : Len(digest[file]) = 2 /\ file[1] = ReplaceAt(JidG)

\* ---------------------------------------------------------------- C14
\* C14: start() returns only because of a stop request: as long as stop() has not
\* been called, start() has not returned and the running flag it set is still set,
\* whatever handshakes, reads, handlers and sends have failed.
C14_ReturnsOnlyOnStop ==
    (pc # "init" /\ ~stopRequested) => (pc # "done" /\ running)

\* A handshake or read failed, a handler raised and a send failed; nobody asked to
\* stop, and start() is at the next handshake.
C14_Witness ==
    /\ ~stopRequested /\ pc = "connecting"
    /\ lastExit = "error" /\ lastResult = "raised" /\ sendOutcome = "logged"

\* ---------------------------------------------------------------- C15
\* C15: a stop() called when a stop() call has already returned finds what a single
\* stop() leaves (not running, connected flag down, handle cleared, no open
\* transport) and changes none of it.
C15_StopIdempotent ==
    [][(StopCall /\ stopReturned)
         => /\ ~running /\ ~connected /\ ws = "None" /\ transport # "open"
            /\ UNCHANGED <<running, connected, ws, transport>>]_vars

\* ---------------------------------------------------------------- C16
\* C16: from the end of a connection's receive loop (by a read error or by the
\* peer's close) until the next handshake succeeds, the connected flag is down and
\* the handle does not refer to the connection that ended.
C16_LoopEndDisconnects ==
    (pc \in {"connecting", "backoff"} /\ lastExit \in {"error", "clean"})
        => (~connected /\ ws = "None")

\* ---------------------------------------------------------------- C17
\* The envelopes that carry no message: their handler returns without raising.
Plain(f) == f.kind \in {"status", "qr", "error", "unknown", "malformed"}

C18_ConnectedImpliesHandle ==
    connected => ws # "None"

\* ---------------------------------------------------------------- C19
\* C19: a send() called after a stop() call has returned writes no frame to any
\* transport.
C19_NoWriteAfterStop ==
    ~(sendLate /\ sendOutcome = "written")

\* ---------------------------------------------------------------- C20
\* C20: frames are handled one at a time in arrival order: a frame is read only
\* when the handling of the frame before it, the awaited upstream call included,
\* has finished; each direct message adds its one call at the end of the calls
\* made so far, nothing else adds, removes or reorders a call, and so the calls
\* are the direct messages in arrival order, each at most once, over reconnects too.
C20_FramesInOrder ==
    /\ [][\A f \in Frames :
             RecvFrame(f) =>
                /\ pc = "listening" /\ lastResult # "pending"
                /\ forwarded' = IF FrameClass(f) = "direct"
                                 THEN Append(forwarded, UpstreamCall(f))
                                 ELSE forwarded]_vars
    /\ [][nframes' = nframes => forwarded' = forwarded]_vars
    /\ [](Len(forwarded) <= nframes)
    /\ []((lastResult = "pending") <=> (pc = "handling"))

\* The voice message arrived first and the text message second; both upstream
\* calls were made in that order and have returned.
C20_Witness ==
    /\ nframes = 2 /\ Len(forwarded) = 2 /\ pc = "listening" /\ lastResult = "ok"
    /\ forwarded[1].content = VoicePlaceholder /\ forwarded[2].content = Hi
====
